---- MODULE Spec2Model ----
(***************************************************************************)
(* Model of the Stream Dock 293 direct-HID launcher                        *)
(* (bin/streamdock_launcher.py): report framing, image upload, brightness, *)
(* key-event decoding and the polling loop with its reconnect logic.       *)
(*                                                                         *)
(* Bytes are integers 0..255 and byte strings are sequences of bytes.  A   *)
(* buffer handed to device.write() is kept as a record [b, z]: the bytes b *)
(* followed by z bytes 0x00, which is what ljust() appends.  Every method  *)
(* of StreamDockLauncherDirect is an operator from a "machine" record (the *)
(* fields of the object, the state of the HID link and the log of the      *)
(* write() calls made so far) to the machine after the call.               *)
(***************************************************************************)
EXTENDS Integers, Sequences, FiniteSets, TLC

VARIABLES
    pc,          \* position of the process: "api", "apidone", "start", "loop", "exit",
                 \*   "crashed" (an exception left the while loop of run)
    device,      \* self.device: "None", "unopened" (hid.device() not opened), "open", "closed"
    running,     \* self.running
    display_on,  \* self.display_on
    link,        \* environment: "up" (attached, handles valid), "down" (detached),
                 \*   "replugged" (attached again, handles opened before are dead)
    fault,       \* environment: the fault-th next write() raises (0: none scheduled)
    kind,        \* environment: what a failing write() raises
    imgLen,      \* environment: byte length of the files the icon renderer produces
    config,      \* self.config (read only after load)
    iconFail,    \* environment: the key whose icon the renderer fails on (0: none)
    errs,        \* history: ticks that ended in a read error since the last successful open
    wire,        \* buffers handed to device.write() by the last operation
    wres,        \* outcome of each of those write() calls
    op           \* the last operation, its inputs and what it was observed to do

vars == <<pc, device, running, display_on, link, fault, kind, imgLen, config, iconFail,
          errs, wire, wres, op>>

-----------------------------------------------------------------------------
(* Bounds of the model *)

\* read errors in a row are counted up to MaxErrs
MaxErrs == 2
\* images of up to MaxChunks full reports plus a tail are uploaded
MaxChunks == 2
\* a scheduled write failure hits one of the next MaxFault write() calls
MaxFault == 2
\* number of distinct fill patterns of the byte strings that are drawn
MaxSeed == 1

-----------------------------------------------------------------------------
(* HID protocol constants *)

PREFIX == <<67, 82, 84, 0, 0>>
CMD_BAT == <<66, 65, 84>>
CMD_STP == <<83, 84, 80, 0, 0>>
CMD_LIG == <<76, 73, 71, 0, 0>>
CMD_CLE == <<67, 76, 69, 0, 0, 0>>
CMD_WPA == <<87, 80, 65>>
CMD_DEL == <<68, 69, 76>>
CMD_INT == <<73, 78, 84>>
REPORT_SIZE == 512

-----------------------------------------------------------------------------
(* Python byte-string primitives *)

\* bytes.ljust(width, b"\x00"): b itself when it is long enough, else b
\* followed by width - len(b) zero bytes
ljust(b, width) ==
    IF Len(b) >= width THEN [b |-> b, z |-> 0]
    ELSE [b |-> b, z |-> width - Len(b)]

\* b[lo:hi] with 0-based, end-exclusive, clamped indices
slice(b, lo, hi) ==
    LET h == IF hi > Len(b) THEN Len(b) ELSE hi
    IN IF lo >= h THEN <<>> ELSE SubSeq(b, lo + 1, h)

\* int.to_bytes(4, "big") raises OverflowError unless 0 <= n < 2^32 = 65536 * 65536
fits_u32(n) == n >= 0 /\ n \div 65536 < 65536

to_bytes4(n) ==
    << (n \div 16777216) % 256, (n \div 65536) % 256, (n \div 256) % 256, n % 256 >>

\* bytes([v]) raises ValueError unless 0 <= v <= 255
fits_u8(v) == v >= 0 /\ v <= 255

\* the offsets produced by range(0, size, step), in order
range_step(size, step) ==
    [j \in 1..((size + step - 1) \div step) |-> (j - 1) * step]

-----------------------------------------------------------------------------
(* The file system as the launcher sees it: a path names a file by its     *)
(* length and fill pattern; the path with exists = FALSE names no file.    *)

file_byte(i, seed) == (i * 37 + seed * 101 + 1) % 256

path_exists(path) == path.exists

read_file(path) == [i \in 1..path.len |-> file_byte(i, path.seed)]

-----------------------------------------------------------------------------
(* _send_report *)

\* the payload as put on the wire: cut to REPORT_SIZE or zero-padded to it
normalize_mut(payload) ==
    IF Len(payload) > REPORT_SIZE THEN [b |-> payload, z |-> 0]
    ELSE ljust(payload, REPORT_SIZE)

normalize(payload) ==
    IF Len(payload) > REPORT_SIZE THEN [b |-> slice(payload, 0, REPORT_SIZE), z |-> 0]
    ELSE IF Len(payload) < REPORT_SIZE THEN ljust(payload, REPORT_SIZE)
    ELSE [b |-> payload, z |-> 0]

\* b"\x00" + payload
with_report_id(buf) == [buf EXCEPT !.b = <<0>> \o @]

\* outcome of device.write() on the object the machine holds: an object that
\* was never opened raises ValueError, an opened handle raises when the panel
\* is gone or the scheduled failure is due
write_outcome(m) ==
    IF m.device # "open" THEN "notopen"
    ELSE IF m.link # "up" \/ m.fault = 1 THEN m.kind
    ELSE "ok"

_send_report_blind(m, payload) ==
    LET res == write_outcome(m)
    IN [m EXCEPT !.wire = Append(@, with_report_id(normalize(payload))),
                 !.wres = Append(@, res),
                 !.fault = IF m.device = "open" /\ @ > 0 THEN @ - 1 ELSE @,
                 !.device = IF res = "fatal" THEN "None" ELSE @]

_send_report_mut(m, payload) ==
    IF m.device = "None" THEN m
    ELSE LET res == write_outcome(m)
         IN [m EXCEPT !.wire = Append(@, with_report_id(normalize(payload))),
                      !.wres = Append(@, res),
                      !.fault = IF m.device = "open" /\ @ > 0 THEN @ - 1 ELSE @,
                      !.device = IF res \in {"fatal", "transient"} THEN "None" ELSE @]

_send_report(m, payload) ==
    IF m.device = "None" THEN m
    ELSE LET res == write_outcome(m)
         IN [m EXCEPT !.wire = Append(@, with_report_id(normalize(payload))),
                      !.wres = Append(@, res),
                      !.fault = IF m.device = "open" /\ @ > 0 THEN @ - 1 ELSE @,
                      !.device = IF res = "fatal" THEN "None" ELSE @]

\* a for-loop whose body is one _send_report call per payload: the calls for
\* payloads[lo..hi] in ascending order (split in halves, the first half evaluated
\* before the second is entered, to keep the evaluation shallow)
RECURSIVE send_range(_, _, _, _)
send_range(m, payloads, lo, hi) ==
    IF lo > hi THEN m
    ELSE IF lo = hi THEN _send_report(m, payloads[lo])
    ELSE LET mid == (lo + hi) \div 2
             left == send_range(m, payloads, lo, mid)
         IN IF Len(left.wire) >= 0 THEN send_range(left, payloads, mid + 1, hi) ELSE left

send_each(m, payloads) == send_range(m, payloads, 1, Len(payloads))

-----------------------------------------------------------------------------
(* set_key_image *)

image_header_mut(cmd, size, key) == PREFIX \o cmd \o <<key>> \o to_bytes4(size)

image_header(cmd, size, key) == PREFIX \o cmd \o to_bytes4(size) \o <<key>>

image_chunks_mut(img_data) ==
    [j \in 1..(Len(img_data) \div REPORT_SIZE) |->
        slice(img_data, (j - 1) * REPORT_SIZE, j * REPORT_SIZE)]

image_chunks_short(img_data) ==
    LET offs == range_step(Len(img_data), REPORT_SIZE)
    IN [j \in 1..Len(offs) |-> slice(img_data, offs[j], offs[j] + REPORT_SIZE - 1)]

image_chunks(img_data) ==
    LET offs == range_step(Len(img_data), REPORT_SIZE)
    IN [j \in 1..Len(offs) |-> slice(img_data, offs[j], offs[j] + REPORT_SIZE)]

set_key_image_mut(m, key, image_path, cmd) ==
    IF m.device = "None" THEN m
    ELSE IF ~path_exists(image_path) THEN m
    ELSE LET img_data == read_file(image_path)
             size == Len(img_data)
         IN IF ~fits_u32(size) \/ ~fits_u8(key) THEN m
            ELSE LET m1 == _send_report(m, image_header(cmd, size, key))
                     m2 == _send_report(m1, PREFIX \o CMD_STP)
                 IN send_each(m2, image_chunks(img_data))

set_key_image(m, key, image_path, cmd) ==
    IF m.device = "None" THEN m
    ELSE IF ~path_exists(image_path) THEN m
    ELSE LET img_data == read_file(image_path)
             size == Len(img_data)
         IN IF ~fits_u32(size) \/ ~fits_u8(key) THEN m
            ELSE LET m1 == _send_report(m, image_header(cmd, size, key))
                     m2 == send_each(m1, image_chunks(img_data))
                 IN _send_report(m2, PREFIX \o CMD_STP)

\* a for-loop whose body is one set_key_image call per item [key, path, cmd]
RECURSIVE upload_range(_, _, _, _)
upload_range(m, items, lo, hi) ==
    IF lo > hi THEN m
    ELSE IF lo = hi THEN set_key_image(m, items[lo].key, items[lo].path, items[lo].cmd)
    ELSE LET mid == (lo + hi) \div 2
             left == upload_range(m, items, lo, mid)
         IN IF Len(left.wire) >= 0 THEN upload_range(left, items, mid + 1, hi) ELSE left

upload_each(m, items) == upload_range(m, items, 1, Len(items))

-----------------------------------------------------------------------------
(* set_brightness, clear_screen, deep_clean *)

brightness_sweep_mut == [i \in 1..255 |-> PREFIX \o CMD_LIG \o to_bytes4(0) \o <<i>>]

brightness_sweep == [i \in 1..256 |-> PREFIX \o CMD_LIG \o to_bytes4(0) \o <<i - 1>>]

set_brightness(m, value) ==
    IF m.device = "None" THEN m
    ELSE IF value = 0
         THEN send_each(_send_report(m, PREFIX \o CMD_LIG \o <<0>>), brightness_sweep)
         ELSE IF ~fits_u8(value) THEN m
              ELSE _send_report(m, PREFIX \o CMD_LIG \o <<value>>)

clear_screen(m) ==
    IF m.device = "None" THEN m
    ELSE _send_report(m, PREFIX \o CMD_CLE)

delete_sweep == [i \in 1..256 |-> PREFIX \o CMD_DEL \o to_bytes4(0) \o <<i - 1>>]

deep_clean_mut(m) ==
    LET m1 == send_each(m, brightness_sweep)
    IN IF Len(m1.wire) >= 0 THEN send_each(m1, delete_sweep) ELSE m1

deep_clean(m) ==
    LET m1 == send_each(m, delete_sweep)
    IN IF Len(m1.wire) >= 0 THEN send_each(m1, brightness_sweep) ELSE m1

-----------------------------------------------------------------------------
(* The machine a method runs on, and the record of an operation *)

Kinds == {"fatal", "transient", "other"}

\* the object and its environment at the start of an operation
Mach ==
    [device |-> device, display_on |-> display_on, running |-> running,
     link |-> link, fault |-> fault, kind |-> kind, imgLen |-> imgLen,
     config |-> config, iconFail |-> iconFail, errs |-> errs,
     wire |-> <<>>, wres |-> <<>>, raised |-> FALSE,
     handled |-> <<>>, events |-> <<>>, opened |-> "no", replayed |-> "no",
     read |-> "no", mark |-> 0]

NoPath == [len |-> 0, seed |-> 0, exists |-> FALSE]

NoOp ==
    [name |-> "none", dev0 |-> "None", on0 |-> TRUE, payload |-> <<>>, key |-> 0,
     path |-> NoPath, cmd |-> <<>>, value |-> 0, data |-> <<>>, raised |-> FALSE,
     handled |-> <<>>, events |-> <<>>, opened |-> "no", replayed |-> "no",
     read |-> "no", mark |-> 0, errs0 |-> 0, sig |-> FALSE]

\* the state after an operation that left the machine as m; the kind of a
\* write error is forgotten once no write can fail
Commit(m, o) ==
    /\ device' = m.device
    /\ display_on' = m.display_on
    /\ running' = m.running
    /\ link' = m.link
    /\ fault' = m.fault
    /\ errs' = m.errs
    /\ wire' = m.wire
    /\ wres' = m.wres
    /\ op' = [o EXCEPT !.dev0 = device, !.on0 = display_on, !.raised = m.raised,
                       !.handled = m.handled, !.events = m.events,
                       !.opened = m.opened, !.replayed = m.replayed, !.read = m.read,
                       !.mark = m.mark, !.errs0 = errs]
    /\ kind' = IF m.fault = 0 /\ (m.link = "up" \/ m.device # "open") THEN "fatal" ELSE kind
    /\ UNCHANGED <<imgLen, config, iconFail>>

-----------------------------------------------------------------------------
(* Collaborators: configuration and icon renderer *)

\* binding.icon_spec: None, "auto:<name>" or a file path
NoIcon == [kind |-> "none", name |-> ""]

NoBinding == [name |-> "", icon_spec |-> NoIcon, action |-> "unbound"]

\* LauncherConfig.get_binding: the binding of the key or None
get_binding(cfg, key_number) ==
    IF key_number \in DOMAIN cfg.bindings THEN cfg.bindings[key_number] ELSE NoBinding

\* IconManager.find_system_icon: a path, or None when no theme has the icon
find_system_icon(app_name) == "none"

\* IconManager.prepare_icon: the path of a rendered file, which exists
prepare_icon(m, icon_path, label) ==
    [len |-> m.imgLen, seed |-> IF label = "" THEN 0 ELSE 1, exists |-> TRUE]

\* the renderer's prepare_background: the path of a rendered file, which exists
prepare_background(m, name) == [len |-> m.imgLen, seed |-> 1, exists |-> TRUE]

-----------------------------------------------------------------------------
(* update_all_keys, toggle_display *)

BG_SLOTS == <<17, 0, 16, 18, 19, 32, 64, 128, 255>>

BLACK_SLOTS == <<17, 0, 16, 18>>

\* the processed icon of one key: lines 386-399
key_icon(m, key_id) ==
    LET binding == get_binding(m.config, key_id)
        label == binding.name
        icon_path == IF binding.icon_spec.kind = "none" THEN "none"
                     ELSE IF binding.icon_spec.kind = "auto"
                          THEN find_system_icon(binding.icon_spec.name)
                          ELSE binding.icon_spec.name
    IN prepare_icon(m, icon_path, label)

key_order == [k \in 1..15 |-> k]

\* the renderer raising for key iconFail ends the loop before that key's upload
update_all_keys(m, include_background) ==
    LET fails == m.iconFail >= 1 /\ m.iconFail <= 15
        n == IF fails THEN m.iconFail - 1 ELSE 15
        items == [k \in 1..n |->
                     [key |-> key_order[k], path |-> key_icon(m, key_order[k]),
                      cmd |-> CMD_BAT]]
        m1 == upload_each(m, items)
        bg_name == IF m.config.background = "none" THEN "black" ELSE m.config.background
        bg == [i \in 1..Len(BG_SLOTS) |->
                  [key |-> BG_SLOTS[i], path |-> prepare_background(m, bg_name),
                   cmd |-> CMD_WPA]]
    IN IF fails THEN [m1 EXCEPT !.raised = TRUE]
       ELSE IF include_background THEN upload_each(m1, bg)
       ELSE m1

toggle_display(m) ==
    LET m0 == [m EXCEPT !.display_on = ~@]
    IN IF ~m0.display_on
       THEN LET m1 == set_brightness(m0, 0)
                black == [i \in 1..Len(BLACK_SLOTS) |->
                             [key |-> BLACK_SLOTS[i],
                              path |-> prepare_background(m, "black"), cmd |-> CMD_WPA]]
                m2 == upload_each(m1, black)
                blank == [k \in 1..15 |->
                             [key |-> k, path |-> prepare_icon(m, "none", ""),
                              cmd |-> CMD_BAT]]
            IN upload_each(m2, blank)
       ELSE LET m1 == set_brightness(m0, m.config.brightness)
                bg_name == IF m.config.background = "none" THEN "black"
                           ELSE m.config.background
                m2 == set_key_image(m1, 17, prepare_background(m, bg_name), CMD_WPA)
            IN update_all_keys(m2, FALSE)

-----------------------------------------------------------------------------
(* Key events: _handle_key_press and the decoding in run *)

key_map_mut ==
    (11 :> 1) @@ (12 :> 2) @@ (13 :> 3) @@ (14 :> 4) @@ (15 :> 5) @@
    (6 :> 6) @@ (7 :> 7) @@ (8 :> 8) @@ (9 :> 9) @@ (10 :> 10) @@
    (1 :> 11) @@ (2 :> 12) @@ (3 :> 13) @@ (4 :> 14) @@ (5 :> 15) @@ (16 :> 0)

key_map ==
    (11 :> 1) @@ (12 :> 2) @@ (13 :> 3) @@ (14 :> 4) @@ (15 :> 5) @@
    (6 :> 6) @@ (7 :> 7) @@ (8 :> 8) @@ (9 :> 9) @@ (10 :> 10) @@
    (1 :> 11) @@ (2 :> 12) @@ (3 :> 13) @@ (4 :> 14) @@ (5 :> 15)

\* self.key_map.get(raw_key, raw_key)
key_map_get(raw_key) == IF raw_key \in DOMAIN key_map THEN key_map[raw_key] ELSE raw_key

\* binding.action.execute() for each kind of action; whatever it raises is
\* caught by _handle_key_press
_handle_key_press(m, key) ==
    LET m0 == [m EXCEPT !.handled = Append(@, key)]
        binding == get_binding(m.config, key)
    IN IF binding.action = "toggle_display"
       THEN [toggle_display(m0) EXCEPT !.raised = FALSE]
       ELSE m0

is_key_report_mut(data) == Len(data) >= 11 /\ data[10] # 255

is_key_report(data) == Len(data) >= 11 /\ data[10] # 255 /\ data[10] # 0

is_press_mut(state) == state = 1 \/ state = 2

is_press(state) == state = 1

\* lines 198-216: what the loop does with the list read() returned
dispatch(m, data) ==
    IF Len(data) = 0 THEN m
    ELSE IF ~is_key_report(data) THEN m
    ELSE LET raw_key == data[10]
             state == data[11]
             key == key_map_get(raw_key)
         IN IF is_press(state)
            THEN _handle_key_press(
                     [m EXCEPT !.events = Append(@, <<"pressed", key, raw_key>>)], key)
            ELSE IF state = 2
                 THEN [m EXCEPT !.events = Append(@, <<"released", key, raw_key>>)]
                 ELSE m

-----------------------------------------------------------------------------
(* initialize, the body of the polling loop, shutdown *)

\* self.device = hid.device(); self.device.open(VENDOR_ID, PRODUCT_ID): the
\* new object is assigned before open() is tried, and open() raises when no
\* panel is attached
hid_open(m) ==
    IF m.link = "down" THEN [m EXCEPT !.device = "unopened", !.raised = TRUE, !.opened = "failed"]
    ELSE [m EXCEPT !.device = "open", !.link = "up", !.opened = "ok", !.errs = 0]

\* lines 102-144; raised stands for the return value False
initialize(m) ==
    LET m1 == hid_open(m)
    IN IF m1.raised THEN m1
       ELSE LET m2 == set_brightness(m1, m.config.brightness)
                m3 == clear_screen(m2)
                m4 == deep_clean(m3)
                m5 == _send_report(m4, PREFIX \o CMD_INT \o to_bytes4(0) \o <<0>>)
                black == [i \in 1..Len(BLACK_SLOTS) |->
                             [key |-> BLACK_SLOTS[i],
                              path |-> prepare_background(m, "black"), cmd |-> CMD_WPA]]
                m6 == upload_each(m5, black)
            IN update_all_keys(m6, FALSE)

\* lines 174-186: the reconnect branch; raised stands for "continue"
replay_twice(m) ==
    LET m1 == set_brightness(m, m.config.brightness)
        m2 == update_all_keys(m1, TRUE)
    IN IF m2.raised THEN m2
       ELSE update_all_keys(set_brightness(m2, m.config.brightness), TRUE)

replay(m) ==
    LET m1 == set_brightness(m, m.config.brightness)
    IN update_all_keys(m1, TRUE)

reconnect_mut(m) ==
    IF m.device # "None" THEN m
    ELSE LET m1 == hid_open(m)
         IN IF m1.raised THEN m1
            ELSE LET m2 == IF m.errs >= 2 THEN replay(replay(m1)) ELSE replay(m1)
                 IN [m2 EXCEPT !.mark = Len(m2.wire),
                               !.replayed = IF m2.raised THEN "raised" ELSE "done"]

reconnect(m) ==
    IF m.device # "None" THEN m
    ELSE LET m1 == hid_open(m)
         IN IF m1.raised THEN m1
            ELSE LET m2 == replay(m1)
                 IN [m2 EXCEPT !.mark = Len(m2.wire),
                               !.replayed = IF m2.raised THEN "raised" ELSE "done"]

\* lines 193-225: read() and what its result or its exception leads to
read_step(m, data) ==
    IF m.device = "None" THEN [m EXCEPT !.read = "nohandle"]
    ELSE IF m.device = "unopened"
         THEN [m EXCEPT !.read = "notopen", !.device = "None",
                        !.errs = IF @ < MaxErrs THEN @ + 1 ELSE @]
    ELSE IF m.link # "up"
         THEN [m EXCEPT !.read = "error", !.device = "None",
                        !.errs = IF @ < MaxErrs THEN @ + 1 ELSE @]
    ELSE IF Len(data) = 0 THEN [m EXCEPT !.read = "timeout"]
    ELSE dispatch([m EXCEPT !.read = "data"], data)

tick_mut(m, data) ==
    LET m1 == reconnect(m)
    IN IF m1.raised THEN m1
       ELSE read_step(m1, data)

\* one iteration of the while loop of run
tick(m, data) ==
    LET m1 == reconnect(m)
    IN IF m1.raised THEN [m1 EXCEPT !.raised = FALSE]
       ELSE read_step(m1, data)

shutdown_mut(m) == m

\* lines 418-423
shutdown(m) ==
    IF m.device = "open" THEN [m EXCEPT !.device = "closed"] ELSE m

-----------------------------------------------------------------------------
(* The process: main() runs initialize(), then run() until the flag drops *)

Bindings ==
    (1 :> [name |-> "Display", icon_spec |-> NoIcon, action |-> "toggle_display"]) @@
    (2 :> [name |-> "Terminal", icon_spec |-> [kind |-> "auto", name |-> "utilities-terminal"],
           action |-> "launch_app"])

DefaultConfig == [brightness |-> 80, background |-> "none", bindings |-> Bindings]

Configs == {[brightness |-> b, background |-> "none", bindings |-> Bindings] : b \in {0, 80}}

LoopImageLens == {3}

\* an inbound report with the given length, scan code (offset 9), state
\* (offset 10) and fill pattern of the other bytes
Inbound(n, code, state, seed) ==
    [i \in 1..n |-> IF i = 10 THEN code ELSE IF i = 11 THEN state
                    ELSE (i * 3 + seed * 89) % 256]

\* what read() returns in the loop: nothing, a press and a release of the
\* toggle key, another bound key, an unmapped code, idle and status frames,
\* an unknown state and a report that is too short
TickReports ==
    { <<>>, Inbound(11, 11, 1, 0), Inbound(11, 11, 2, 0), Inbound(12, 12, 1, 0), Inbound(11, 16, 1, 0),
      Inbound(11, 0, 1, 0), Inbound(11, 255, 1, 0), Inbound(11, 12, 3, 0), Inbound(10, 11, 1, 0) }

Init ==
    /\ pc = "start"
    /\ device = "None"
    /\ running = FALSE
    /\ display_on = TRUE
    /\ link = "up"
    /\ fault = 0
    /\ kind = "fatal"
    /\ imgLen \in LoopImageLens
    /\ config \in Configs
    /\ iconFail = 0
    /\ errs = 0
    /\ wire = <<>>
    /\ wres = <<>>
    /\ op = NoOp

\* main: initialize() and, when it returns True, the entry of run()
Initialize ==
    /\ pc = "start"
    /\ LET m == initialize(Mach)
       IN /\ pc' = IF m.raised THEN "exit" ELSE "loop"
          /\ Commit([m EXCEPT !.running = ~m.raised], [NoOp EXCEPT !.name = "initialize"])

\* one pass of the while loop; sig: a signal is delivered while it runs, the
\* handler drops the flag and the pass goes on to its end
Tick(data, sig) ==
    /\ pc = "loop"
    /\ running
    /\ LET m == tick(Mach, data)
       IN /\ pc' = IF m.raised THEN "crashed" ELSE "loop"
          /\ Commit([m EXCEPT !.running = ~sig],
                    [NoOp EXCEPT !.name = "tick", !.data = data, !.sig = sig])

\* the while condition fails: finally shutdown()
Exit ==
    /\ pc = "loop"
    /\ ~running
    /\ pc' = "exit"
    /\ Commit(shutdown(Mach), [NoOp EXCEPT !.name = "shutdown"])

Env == [NoOp EXCEPT !.name = "env"]

\* the panel is pulled; writes on the dead handle raise errors of kind k, and
\* a failure scheduled for the live handle no longer matters
Unplug(k) ==
    /\ pc = "start" \/ (pc = "loop" /\ running)
    /\ link # "down"
    /\ link' = "down"
    /\ fault' = 0
    /\ kind' = IF device = "open" THEN k ELSE "fatal"
    /\ wire' = <<>> /\ wres' = <<>> /\ op' = Env
    /\ UNCHANGED <<pc, device, running, display_on, imgLen, config, iconFail, errs>>

Plug ==
    /\ pc = "start" \/ (pc = "loop" /\ running)
    /\ link = "down"
    /\ link' = "replugged"
    /\ wire' = <<>> /\ wres' = <<>> /\ op' = Env
    /\ UNCHANGED <<pc, device, running, display_on, fault, kind, imgLen, config, iconFail, errs>>

\* the n-th write() from now raises an error of kind k
ScheduleFault(n, k) ==
    /\ pc = "start" \/ (pc = "loop" /\ running)
    /\ fault = 0
    /\ link = "up"
    /\ fault' = n
    /\ kind' = k
    /\ wire' = <<>> /\ wres' = <<>> /\ op' = Env
    /\ UNCHANGED <<pc, device, running, display_on, link, imgLen, config, iconFail, errs>>

\* the renderer starts or stops failing on the icon of key k
SetRenderer(k) ==
    /\ pc = "start" \/ (pc = "loop" /\ running)
    /\ iconFail # k
    /\ iconFail' = k
    /\ wire' = <<>> /\ wres' = <<>> /\ op' = Env
    /\ UNCHANGED <<pc, device, running, display_on, link, fault, kind, imgLen, config, errs>>

\* signal_handler: SIGINT or SIGTERM while run() is looping
Signal ==
    /\ pc = "loop"
    /\ running
    /\ running' = FALSE
    /\ wire' = <<>> /\ wres' = <<>> /\ op' = Env
    /\ UNCHANGED <<pc, device, display_on, link, fault, kind, imgLen, config, iconFail, errs>>

Next ==
    \/ Initialize
    \/ \E data \in TickReports, sig \in BOOLEAN : Tick(data, sig)
    \/ Exit
    \/ \E k \in Kinds : Unplug(k)
    \/ Plug
    \/ \E n \in 1..MaxFault, k \in Kinds : ScheduleFault(n, k)
    \/ \E k \in {0, 2} : SetRenderer(k)
    \/ Signal

Spec == Init /\ [][Next]_vars

\* once the while condition is false nothing keeps run() from leaving the loop
\* and running its finally clause
FairSpec == Spec /\ WF_vars(Exit)

-----------------------------------------------------------------------------
(* Direct calls of the methods, each on a freshly drawn object state *)

TailLens == {0, 1, 26, 511}

ImageLens == {k * REPORT_SIZE + d : k \in 0..MaxChunks, d \in TailLens}

ApiPaths ==
    {[len |-> n, seed |-> s, exists |-> TRUE] : n \in ImageLens, s \in {0}} \cup {NoPath}

ApiPayloads ==
    {[i \in 1..n |-> file_byte(i, s)] :
        n \in {0, 1, 15, 511, 512, 513, 514, 1024}, s \in 0..MaxSeed}

\* brightness values, and two that do not fit a byte
ApiValues == (0..100) \cup {-1, 256}

\* the two upload opcodes and a malformed one ("XY")
ApiCmds == {CMD_BAT, CMD_WPA, <<88, 89>>}

\* reports of 11 and 12 bytes with the given scan codes and the states 0..3,
\* and shorter ones
ReportsOf(codes) ==
    {Inbound(n, code, state, s) :
        n \in {11, 12}, code \in codes, state \in 0..3, s \in 0..MaxSeed}
    \cup {Inbound(n, code, 1, s) : n \in {1, 9, 10}, code \in {0, 11, 255}, s \in 0..MaxSeed}

AllReports == ReportsOf(0..255)

FewReports == ReportsOf({0, 11, 16, 255})

ApiReports ==
    IF link = "up" /\ fault = 0 /\ device = "open" THEN AllReports ELSE FewReports

\* every slot is drawn on a healthy link, three of them when a write is going
\* to fail, and two indices that are not slots
ApiKeys ==
    (IF link = "up" /\ fault = 0 /\ device = "open" THEN 0..255 ELSE {0, 3, 255})
    \cup {-1, 256}

InitApi ==
    /\ pc = "api"
    /\ device \in {"None", "unopened", "open"}
    /\ running = FALSE
    /\ display_on = TRUE
    /\ link \in {"up", "down"}
    /\ fault \in 0..MaxFault
    /\ kind \in Kinds
    /\ device # "open" => (link = "up" /\ fault = 0 /\ kind = "fatal")
    /\ (link = "up" /\ fault = 0) => kind = "fatal"
    /\ link = "down" => fault = 0
    /\ imgLen \in LoopImageLens
    /\ config = DefaultConfig
    /\ iconFail = 0
    /\ errs = 0
    /\ wire = <<>>
    /\ wres = <<>>
    /\ op = NoOp

CallSendReport(payload) ==
    /\ pc = "api"
    /\ pc' = "apidone"
    /\ Commit(_send_report(Mach, payload),
              [NoOp EXCEPT !.name = "_send_report", !.payload = payload])

CallSetKeyImage(key, image_path, cmd) ==
    /\ pc = "api"
    /\ pc' = "apidone"
    /\ Commit(set_key_image(Mach, key, image_path, cmd),
              [NoOp EXCEPT !.name = "set_key_image", !.key = key,
                           !.path = image_path, !.cmd = cmd])

CallSetBrightness(value) ==
    /\ pc = "api"
    /\ pc' = "apidone"
    /\ Commit(set_brightness(Mach, value),
              [NoOp EXCEPT !.name = "set_brightness", !.value = value])

\* the loop's handling of a list that read() returned
HandleReport(data) ==
    /\ pc = "api"
    /\ pc' = "apidone"
    /\ Commit(dispatch(Mach, data), [NoOp EXCEPT !.name = "dispatch", !.data = data])

NextApi ==
    \/ \E payload \in ApiPayloads : CallSendReport(payload)
    \/ \E key \in ApiKeys, image_path \in ApiPaths, cmd \in ApiCmds :
           CallSetKeyImage(key, image_path, cmd)
    \/ \E value \in ApiValues : CallSetBrightness(value)
    \/ \E data \in ApiReports : HandleReport(data)

SpecApi == InitApi /\ [][NextApi]_vars

-----------------------------------------------------------------------------
(* Vocabulary of the properties *)

\* length and bytes of a buffer that was handed to write()
BufLen(r) == Len(r.b) + r.z

BufByte(r, i) == IF i <= Len(r.b) THEN r.b[i] ELSE 0

\* the buffer is the report id 0x00, then the given bytes, then zeros up to 513 bytes
IsReport(r, bytes) ==
    /\ BufLen(r) = 513
    /\ \A j \in 1..513 :
          BufByte(r, j) = IF j = 1 THEN 0
                          ELSE IF j - 1 <= Len(bytes) THEN bytes[j - 1] ELSE 0

\* every write() of the last operation returned normally
AllOk == \A i \in 1..Len(wres) : wres[i] = "ok"

\* no write() of the last operation raised the error that drops the handle
NoFatal == \A i \in 1..Len(wres) : wres[i] # "fatal"

\* ceil(n / 512)
CeilReports(n) == IF n % 512 = 0 THEN n \div 512 ELSE (n \div 512) + 1

\* byte i (from 1) of the concatenated payloads of the reports wire[first], wire[first+1], ...
ConcatByte(first, i) == BufByte(wire[first + ((i - 1) \div 512)], 2 + ((i - 1) % 512))

UploadDone ==
    /\ op.name = "set_key_image"
    /\ op.dev0 = "open"
    /\ op.path.exists
    /\ op.key \in 0..255
    /\ op.cmd \in {CMD_BAT, CMD_WPA}

-----------------------------------------------------------------------------
(* C1 - C5: framing, image upload, brightness *)

\* C1: every buffer handed to device.write() is 513 bytes long and starts with
\* the report id 0x00; the buffer _send_report builds from a payload of any
\* length is that byte followed by the payload zero-padded on the right when
\* shorter than 512 bytes and cut to its first 512 bytes when longer.
C1_ReportIs513Bytes ==
    /\ \A i \in 1..Len(wire) : BufLen(wire[i]) = 513 /\ BufByte(wire[i], 1) = 0
    /\ op.name = "_send_report" =>
          \A i \in 1..Len(wire) : \A j \in 1..512 :
              BufByte(wire[i], j + 1) = IF j <= Len(op.payload) THEN op.payload[j] ELSE 0
    /\ (op.name = "_send_report" /\ op.dev0 # "None") => Len(wire) = 1

C1_Witness ==
    /\ op.name = "_send_report"
    /\ Len(op.payload) > 512
    /\ op.dev0 = "open"
    /\ Len(wire) = 1
    /\ wres = <<"ok">>

\* C2: with the device open and every write succeeding, set_key_image of an
\* n-byte image writes one header report, then ceil(n/512) data reports that
\* carry the image bytes in ascending offset order, then one STP report, and
\* nothing else: five reports for n = 1050, two for n = 0.
C2_UploadSequence ==
    (UploadDone /\ AllOk) =>
        LET p == read_file(op.path)
            n == Len(p)
            k == CeilReports(n)
        IN /\ Len(wire) = 1 + k + 1
           /\ \A i \in 1..9 :
                  BufByte(wire[1], i) = (<<0, 67, 82, 84, 0, 0>> \o op.cmd)[i]
           /\ \A j \in 1..k : \A i \in 1..512 :
                  BufByte(wire[1 + j], 1 + i) =
                      IF (j - 1) * 512 + i <= n THEN p[(j - 1) * 512 + i] ELSE 0
           /\ IsReport(wire[k + 2], <<67, 82, 84, 0, 0, 83, 84, 80, 0, 0>>)
           /\ n = 1050 => Len(wire) = 5
           /\ n = 0 => Len(wire) = 2

C2_Witness ==
    /\ UploadDone /\ AllOk
    /\ op.path.len = 1050
    /\ op.key = 3
    /\ op.cmd = CMD_BAT
    /\ Len(wire) = 5

\* C3: the first report of set_key_image, for opcode BAT or WPA, any slot
\* 0..255 and any image length n, has a 512-byte payload made of the magic
\* 'C','R','T',0,0, the opcode, n as a 4-byte big-endian integer, the slot
\* byte, and zeros; n is the number of image bytes the data reports that
\* follow carry.
C3_HeaderLayout ==
    (op.name = "set_key_image" /\ op.cmd \in {CMD_BAT, CMD_WPA} /\ Len(wire) >= 1) =>
        LET h == [i \in 1..(BufLen(wire[1]) - 1) |-> BufByte(wire[1], i + 1)]
            n == Len(read_file(op.path))
            k == Len(wire) - 2
        IN /\ Len(h) = 512
           /\ SubSeq(h, 1, 5) = <<67, 82, 84, 0, 0>>
           /\ SubSeq(h, 6, 8) = op.cmd
           /\ h[9] * 16777216 + h[10] * 65536 + h[11] * 256 + h[12] = n
           /\ h[13] = op.key
           /\ \A i \in 14..512 : h[i] = 0
           /\ NoFatal => ((k - 1) * 512 < n /\ n <= k * 512)

C3_Witness ==
    /\ op.name = "set_key_image"
    /\ op.cmd = CMD_WPA
    /\ op.key = 255
    /\ op.path.len = 1050
    /\ AllOk
    /\ Len(wire) = 5

\* C4: for an upload that no fatal write error cuts short, the payloads of
\* the data reports, concatenated in the order they were written, are the
\* image followed by zeros only, and there are no more than ceil(len/512) of
\* them.
C4_ChunksRebuildImage ==
    (op.name = "set_key_image" /\ Len(wire) >= 1 /\ NoFatal) =>
        LET p == read_file(op.path)
            k == Len(wire) - 2
        IN /\ k <= CeilReports(Len(p))
           /\ k * 512 >= Len(p)
           /\ \A i \in 1..(k * 512) :
                  ConcatByte(2, i) = IF i <= Len(p) THEN p[i] ELSE 0

C4_Witness ==
    /\ UploadDone /\ AllOk
    /\ op.path.len = 1023
    /\ Len(wire) = 4
    /\ ConcatByte(2, 1023) = read_file(op.path)[1023]
    /\ ConcatByte(2, 1024) = 0

\* C5: with the device open and every write succeeding, set_brightness(0)
\* writes the global brightness-zero command and then 256 per-slot
\* brightness-zero commands with slot bytes 0, 1, ..., 255 in that order, and
\* nothing else; set_brightness(v) for 1 <= v <= 100 writes one report.
C5_BrightnessSweep ==
    (op.name = "set_brightness" /\ op.dev0 = "open" /\ AllOk) =>
        /\ op.value = 0 =>
              /\ Len(wire) = 257
              /\ IsReport(wire[1], <<67, 82, 84, 0, 0, 76, 73, 71, 0, 0, 0>>)
              /\ \A s \in 0..255 :
                    IsReport(wire[s + 2],
                             <<67, 82, 84, 0, 0, 76, 73, 71, 0, 0, 0, 0, 0, 0, s>>)
        /\ (op.value >= 1 /\ op.value <= 100) =>
              /\ Len(wire) = 1
              /\ IsReport(wire[1], <<67, 82, 84, 0, 0, 76, 73, 71, 0, 0, op.value>>)

C5_Witness ==
    /\ op.name = "set_brightness"
    /\ op.dev0 = "open"
    /\ AllOk
    /\ op.value = 0
    /\ Len(wire) = 257
    /\ BufByte(wire[257], 16) = 255

-----------------------------------------------------------------------------
(* C6 - C8: decoding of inbound reports *)

\* the logical key the documented table gives for a scan code
TableKey(code) ==
    IF code >= 11 /\ code <= 15 THEN code - 10
    ELSE IF code >= 6 /\ code <= 10 THEN code
    ELSE IF code >= 1 /\ code <= 5 THEN code + 10
    ELSE code

\* the last operation decoded a list that read() returned
Decoded == op.name = "dispatch" \/ (op.name = "tick" /\ op.read = "data")

\* C6: a report shorter than 11 bytes, or one whose byte at offset 9 is 0x00
\* or 0xFF, produces no key event and no action dispatch, whatever its other
\* bytes are; the state byte at offset 10 is not looked at.
C6_IdleReportsIgnored ==
    (Decoded /\ (Len(op.data) < 11 \/ op.data[10] = 0 \/ op.data[10] = 255)) =>
        /\ op.events = <<>>
        /\ op.handled = <<>>
        /\ Len(wire) = op.mark
        /\ display_on = op.on0

C6_Witness ==
    /\ op.name = "dispatch"
    /\ Len(op.data) = 11
    /\ op.data[10] = 0
    /\ op.data[11] = 1
    /\ op.events = <<>>
    /\ op.handled = <<>>

\* C7: a key report with state 1 or 2 is decoded to the logical key of the
\* table: scan codes 0x0B..0x0F are keys 1..5, 0x06..0x0A are keys 6..10,
\* 0x01..0x05 are keys 11..15, every other scan code is its own key number;
\* the event carries the kind, the logical key and the raw scan code, and a
\* report with offset 9 = 0x0B and offset 10 = 0x01 is a press of key 1.
C7_ScanCodeTable ==
    (Decoded /\ Len(op.data) >= 11 /\ op.data[10] # 0 /\ op.data[10] # 255
        /\ op.data[11] \in {1, 2}) =>
        /\ op.events = << << IF op.data[11] = 1 THEN "pressed" ELSE "released",
                             TableKey(op.data[10]), op.data[10] >> >>
        /\ (op.data[10] = 11 /\ op.data[11] = 1) => op.events = << <<"pressed", 1, 11>> >>
        /\ \A c \in 1..15 : \A d \in 1..15 :
               (key_map_get(c) = key_map_get(d)) => c = d
        /\ \A c \in 1..15 : key_map_get(c) \in 1..15

C7_Witness ==
    /\ op.name = "dispatch"
    /\ Len(op.data) = 12
    /\ op.data[10] = 3
    /\ op.data[11] = 2
    /\ op.events = << <<"released", 13, 3>> >>

\* C8: the polling loop dispatches exactly one action lookup for a key report
\* whose state byte is 0x01, for the logical key of its scan code, and none
\* for a release (0x02), for any other state value, for a report that is not
\* a key report, for a timeout or for a failed read.
C8_DispatchOnPressOnly ==
    op.name = "tick" =>
        IF /\ op.read = "data"
           /\ Len(op.data) >= 11
           /\ op.data[10] # 0 /\ op.data[10] # 255
           /\ op.data[11] = 1
        THEN op.handled = <<TableKey(op.data[10])>>
        ELSE op.handled = <<>>

C8_Witness ==
    /\ op.name = "tick"
    /\ op.read = "data"
    /\ op.data[10] = 12
    /\ op.data[11] = 1
    /\ op.handled = <<2>>

-----------------------------------------------------------------------------
(* C9 - C10: reconnection *)

\* C9: after a tick whose open() failed the handle is absent, and the next
\* tick attempts the open again.
C9_FailedOpenStaysDisconnected ==
    [][(op.name = "tick" /\ op.opened = "failed") =>
           /\ device = "None"
           /\ (op'.name = "tick" => op'.opened # "no")]_vars

\* the handle the failed open leaves behind, and the tick that reads from it
\* instead of opening
C9_FailedOpenLeavesHandle ==
    /\ op.name = "tick"
    /\ op.opened = "no"
    /\ op.dev0 = "unopened"
    /\ op.read = "notopen"
    /\ device = "None"

\* the image upload of the replay that starts at report first + 1
ReplayUpload(first, key, cmd) ==
    LET k == CeilReports(imgLen)
    IN /\ \A i \in 1..9 : BufByte(wire[first + 1], i) = (<<0, 67, 82, 84, 0, 0>> \o cmd)[i]
       /\ BufByte(wire[first + 1], 10) * 16777216 + BufByte(wire[first + 1], 11) * 65536
              + BufByte(wire[first + 1], 12) * 256 + BufByte(wire[first + 1], 13) = imgLen
       /\ BufByte(wire[first + 1], 14) = key
       /\ IsReport(wire[first + k + 2], <<67, 82, 84, 0, 0, 83, 84, 80, 0, 0>>)

\* the report is a brightness command or the header of a key image
IsLigOrBat(r) ==
    \/ \A i \in 1..9 : BufByte(r, i) = <<0, 67, 82, 84, 0, 0, 76, 73, 71>>[i]
    \/ \A i \in 1..9 : BufByte(r, i) = <<0, 67, 82, 84, 0, 0, 66, 65, 84>>[i]

\* the number of reports set_brightness writes for the configured value
BrightnessReports == IF config.brightness = 0 THEN 257 ELSE 1

\* C10: a tick whose open() succeeds leaves the handle open and replays the
\* configuration once: when every write of the replay succeeds and every
\* icon is rendered, the reports written are the brightness command(s) for
\* the configured brightness, then one image upload per key 1, 2, ..., 15 in
\* that order, and after them no further brightness command or key image.
C10_ReplayOnReconnect ==
    (op.name = "tick" /\ op.opened = "ok") =>
        /\ op.dev0 = "None"
        /\ (\A i \in 1..Len(wres) : wres[i] # "fatal") => device = "open"
        /\ (op.replayed = "done" /\ \A i \in 1..op.mark : wres[i] = "ok") =>
              LET b == BrightnessReports
                  u == 2 + CeilReports(imgLen)
              IN /\ op.mark >= b + 15 * u
                 /\ IF config.brightness = 0
                    THEN IsReport(wire[1], <<67, 82, 84, 0, 0, 76, 73, 71, 0, 0, 0>>)
                    ELSE IsReport(wire[1], <<67, 82, 84, 0, 0, 76, 73, 71, 0, 0,
                                             config.brightness>>)
                 /\ \A k \in 1..15 : ReplayUpload(b + (k - 1) * u, k, CMD_BAT)
                 /\ \A i \in (b + 15 * u + 1)..op.mark : ~IsLigOrBat(wire[i])

C10_Witness ==
    /\ op.name = "tick"
    /\ op.opened = "ok"
    /\ op.replayed = "done"
    /\ AllOk
    /\ config.brightness = 80
    /\ op.mark = 1 + 24 * (2 + CeilReports(imgLen))
    /\ device = "open"

-----------------------------------------------------------------------------
(* C11 - C13: dispatch and replay around a lost connection *)

\* C11: after a tick whose open() succeeded but whose replay was cut short by
\* an exception, the following tick does not call the key handler unless it
\* has opened and replayed again.
C11_NoDispatchBeforeReplayDone ==
    [][(op.name = "tick" /\ op.opened = "ok" /\ op.replayed = "raised"
            /\ op'.name = "tick" /\ op'.opened # "ok")
        => op'.handled = <<>>]_vars

\* C12: once a read error has cost the connection, a tick that does not open
\* successfully neither reads nor calls the key handler.
C12_NoReadUntilReopened ==
    [][(errs >= 1 /\ op'.name = "tick" /\ op'.opened # "ok")
        => (op'.read = "no" /\ op'.handled = <<>>)]_vars

\* the replay segment of the last tick is one replay: the brightness
\* command(s), the uploads of keys 1..15 in order, and no brightness command or
\* key image after them
OneReplay ==
    LET b == BrightnessReports
        u == 2 + CeilReports(imgLen)
    IN /\ op.mark >= b + 15 * u
       /\ \A i \in 1..b : IsLigOrBat(wire[i])
       /\ \A k \in 1..15 : ReplayUpload(b + (k - 1) * u, k, CMD_BAT)
       /\ \A i \in (b + 15 * u + 1)..op.mark : ~IsLigOrBat(wire[i])

\* C13: a tick that does not open successfully writes no replay; the tick
\* that reopens after two read errors in a row carries out one replay, not
\* two (all its writes succeeding, every icon rendered), and a Pressed report
\* read in that tick is dispatched to the handler.
C13_OneReplayAfterTwoErrors ==
    op.name = "tick" =>
        /\ op.opened # "ok" =>
              (op.mark = 0 /\ op.replayed = "no" /\ (op.handled = <<>> => wire = <<>>))
        /\ (op.errs0 >= 2 /\ op.opened = "ok" /\ op.replayed = "done" /\ AllOk) =>
              /\ OneReplay
              /\ errs = 0
              /\ device = "open"
              /\ (Len(op.data) >= 11 /\ op.data[10] \notin {0, 255} /\ op.data[11] = 1) =>
                     op.handled = <<TableKey(op.data[10])>>

C13_Witness ==
    /\ op.name = "tick"
    /\ op.errs0 = 2
    /\ op.opened = "ok"
    /\ op.replayed = "done"
    /\ AllOk
    /\ op.read = "data"
    /\ op.handled = <<2>>
    /\ device = "open"

-----------------------------------------------------------------------------
(* C14 - C16: write failures and misuse *)

\* C14: when a write() of an upload fails, that write is the last one of the
\* upload and set_key_image reports the failure to its caller.
C14_FailedWriteAbortsUpload ==
    (op.name = "set_key_image" /\ ~AllOk) =>
        /\ \A i \in 1..(Len(wres) - 1) : wres[i] = "ok"
        /\ op.raised

\* a write() of the last operation raised the error that the code takes as fatal
FatalWrite == \E i \in 1..Len(wres) : wres[i] = "fatal"

\* a write() of the last operation raised another error
OtherWriteError == \E i \in 1..Len(wres) : wres[i] \in {"transient", "other"}

C16_MisuseRejectedBeforeWrite ==
    /\ (op.name = "set_key_image" /\ (op.key \notin 0..255 \/ op.cmd \notin {CMD_BAT, CMD_WPA}))
           => wire = <<>>
    /\ (op.name = "set_brightness" /\ op.value \notin 0..255) => wire = <<>>

\* the upload with the malformed opcode that was written in full
C16_MalformedOpcodeWritten ==
    /\ op.name = "set_key_image"
    /\ op.cmd = <<88, 89>>
    /\ op.key = 3
    /\ AllOk
    /\ Len(wire) = 2 + CeilReports(op.path.len)

-----------------------------------------------------------------------------
(* C17 - C19: retry, absorption of errors, shutdown *)

\* C17: a failed open at process start does not end the process: it stays
\* alive to attempt the open again.
C17_FailedStartIsRetried ==
    (op.name = "initialize" /\ op.opened = "failed") => pc # "exit"

\* C18: no exception leaves the while loop of run: a tick with a failed open,
\* a failed read, failed writes, a replay cut short or a failing key action
\* ends with the loop still looping, and the loop is left only with the
\* running flag down.
C18_LoopAbsorbsErrors ==
    /\ [](pc # "crashed" /\ (op.name = "tick" => (~op.raised /\ pc = "loop")))
    /\ [][(pc = "loop" /\ pc' # "loop") => (~running /\ pc' = "exit")]_vars

C18_Witness ==
    /\ op.name = "tick"
    /\ op.opened = "ok"
    /\ op.replayed = "raised"
    /\ ~AllOk
    /\ pc = "loop"
    /\ running

\* C19: once the running flag is down the loop starts no further tick, its
\* next step is the exit through shutdown(), that step is eventually taken,
\* and an open handle is closed by it.
C19_ShutdownTerminates ==
    /\ (pc = "loop" /\ ~running) ~> (pc = "exit" /\ op.name = "shutdown" /\ device # "open")
    /\ [][(pc = "loop" /\ ~running) => (op'.name = "shutdown" /\ pc' = "exit")]_vars
    /\ []((op.name = "shutdown" /\ op.dev0 = "open") => device = "closed")

C19_Witness ==
    /\ pc = "exit"
    /\ op.name = "shutdown"
    /\ op.dev0 = "open"
    /\ device = "closed"
    /\ link = "down"

-----------------------------------------------------------------------------
(* C20: one command at a time on the handle *)

\* the report starts a command: report id, then the magic 'C','R','T',0,0
IsCommand(r) == \A i \in 1..6 : BufByte(r, i) = <<0, 67, 82, 84, 0, 0>>[i]

\* the report is the header of an image upload
IsUploadHeader(r) ==
    /\ IsCommand(r)
    /\ <<BufByte(r, 7), BufByte(r, 8), BufByte(r, 9)>> \in {CMD_BAT, CMD_WPA}

\* the image size an upload header announces
HeaderSize(r) ==
    BufByte(r, 10) * 16777216 + BufByte(r, 11) * 65536 + BufByte(r, 12) * 256 + BufByte(r, 13)

\* C20: in the writes of every operation each upload header is followed by
\* the data reports of its image and then by its STP report, with no other
\* command between them; an upload stops short of that only when a write of
\* it raised the fatal error, and then nothing is written after it. This
\* includes the uploads of toggle_display started by a key press and the
\* ticks during which a signal drops the running flag.
C20_UploadsNotInterleaved ==
    \A i \in 1..Len(wire) :
        IsUploadHeader(wire[i]) =>
            LET k == CeilReports(HeaderSize(wire[i]))
            IN IF i + k + 1 <= Len(wire)
               THEN /\ \A j \in (i + 1)..(i + k) : ~IsCommand(wire[j])
                    /\ IsReport(wire[i + k + 1], <<67, 82, 84, 0, 0, 83, 84, 80, 0, 0>>)
               ELSE /\ wres[Len(wres)] = "fatal"
                    /\ device = "None"
                    /\ \A j \in (i + 1)..Len(wire) : ~IsCommand(wire[j])

C20_Witness ==
    /\ op.name = "tick"
    /\ op.sig
    /\ ~running
    /\ op.handled = <<1>>
    /\ ~display_on
    /\ AllOk
    /\ Len(wire) = 257 + 19 * (2 + CeilReports(imgLen))
    /\ IsUploadHeader(wire[258])

-----------------------------------------------------------------------------
(* C21: deep_clean *)

\* the report is a delete command
IsDel(r) == \A i \in 1..9 : BufByte(r, i) = <<0, 67, 82, 84, 0, 0, 68, 69, 76>>[i]

\* C21: in a cold start whose writes all succeed, the reports between the
\* clear command and the INT command are the 512 reports of deep_clean: one
\* DEL command per slot 0, 1, ..., 255 in that order, then one zero-brightness
\* command per slot 0, 1, ..., 255 in that order; no other report of the cold
\* start is a DEL command, and no tick and no shutdown writes one.
C21_DeepCleanAtColdStart ==
    /\ (op.name = "initialize" /\ op.opened = "ok" /\ AllOk) =>
          LET s == BrightnessReports + 1
          IN /\ IsReport(wire[s], <<67, 82, 84, 0, 0, 67, 76, 69, 0, 0, 0>>)
             /\ \A i \in 0..255 :
                   IsReport(wire[s + 1 + i],
                            <<67, 82, 84, 0, 0, 68, 69, 76, 0, 0, 0, 0, i>>)
             /\ \A i \in 0..255 :
                   IsReport(wire[s + 257 + i],
                            <<67, 82, 84, 0, 0, 76, 73, 71, 0, 0, 0, 0, 0, 0, i>>)
             /\ IsReport(wire[s + 513], <<67, 82, 84, 0, 0, 73, 78, 84, 0, 0, 0, 0, 0>>)
             /\ \A j \in 1..Len(wire) : IsDel(wire[j]) => (j > s /\ j <= s + 256)
    /\ op.name \in {"tick", "shutdown"} => \A j \in 1..Len(wire) : ~IsDel(wire[j])

C21_Witness ==
    /\ op.name = "initialize"
    /\ op.opened = "ok"
    /\ AllOk
    /\ pc = "loop"
    /\ config.brightness = 80
    /\ IsDel(wire[258])
    /\ BufByte(wire[258], 14) = 255
    /\ BufByte(wire[514], 16) = 255

-----------------------------------------------------------------------------
(* C22: nothing is written without an open handle *)

\* C22: every write() of the process is made on an opened handle; the write
\* that raises the fatal error is the last write of its operation, so the
\* remaining calls of set_brightness, clear_screen, deep_clean, set_key_image
\* and toggle_display in that cold start, replay or key action write nothing;
\* and an operation that neither starts with an open handle nor opens one
\* writes nothing at all.
C22_NoWriteUnlessOpen ==
    /\ \A i \in 1..Len(wres) : wres[i] # "notopen"
    /\ \A i \in 1..Len(wres) : wres[i] = "fatal" => i = Len(wres)
    /\ (op.name \in {"initialize", "tick"} /\ op.dev0 # "open" /\ op.opened # "ok")
          => wire = <<>>
    /\ (Len(wres) > 0 /\ wres[Len(wres)] = "fatal") => device = "None"

\* a replay whose first write raised the fatal error: the rest of
\* set_brightness and the whole of update_all_keys wrote nothing
C22_Witness ==
    /\ op.name = "tick"
    /\ op.dev0 = "None"
    /\ op.opened = "ok"
    /\ Len(wire) = 1
    /\ wres = <<"fatal">>
    /\ device = "None"

-----------------------------------------------------------------------------
(* C23: display_on and the brightness last commanded *)

\* the report is a brightness command
IsLig(r) == \A i \in 1..11 : BufByte(r, i) = <<0, 67, 82, 84, 0, 0, 76, 73, 71, 0, 0>>[i]

\* the positions of the brightness commands among the writes of the last operation
LigAt == {j \in 1..Len(wire) : IsLig(wire[j])}

\* the last brightness command of the last operation
LastLig == wire[CHOOSE j \in LigAt : \A k \in LigAt : k <= j]

\* the last brightness command closes the zero-brightness sweep: brightness 0 for slot 255
EndsZeroSweep == IsReport(LastLig, <<67, 82, 84, 0, 0, 76, 73, 71, 0, 0, 0, 0, 0, 0, 255>>)

\* C23: for a configured brightness above 0, when the process is between two
\* ticks with the handle open and the last tick wrote brightness commands
\* (in a replay, in toggle_display or in both), all of its writes succeeding,
\* display_on is FALSE exactly when the last of them closes the
\* zero-brightness sweep.
C23_DisplayFlagAgrees ==
    (op.name = "tick" /\ pc = "loop" /\ device = "open" /\ config.brightness > 0
         /\ AllOk /\ LigAt # {})
        => (display_on = FALSE <=> EndsZeroSweep)

\* C23, second half: a tick inverts display_on when it handles a press of the
\* key bound to toggle_display and leaves it alone otherwise, so that two
\* toggles in a row restore it
C23_ToggleInverts ==
    op.name = "tick" =>
        (display_on = IF op.handled = <<1>> THEN ~op.on0 ELSE op.on0)

C23_ToggleWitness ==
    /\ op.name = "tick"
    /\ op.handled = <<1>>
    /\ op.on0 = FALSE
    /\ display_on = TRUE

-----------------------------------------------------------------------------
(* C24: handles are closed before they are dropped *)

\* C24: whenever the launcher lets go of an opened handle, it has closed it:
\* a step that starts with an opened handle in self.device and ends without
\* one ends with that handle closed.
C24_DroppedHandleIsClosed ==
    [][(device = "open" /\ device' # "open") => device' = "closed"]_vars

\* C24, last part: when run returns after shutdown, self.device holds no
\* opened handle
C24_NoOpenHandleAfterShutdown == op.name = "shutdown" => device # "open"

C24_ShutdownWitness ==
    /\ pc = "exit"
    /\ op.name = "shutdown"
    /\ op.dev0 = "open"
    /\ device = "closed"

====
